---- MODULE Spec2Model ----
(***************************************************************************)
(* fp-bindgen: the Serializable resolver (fp-bindgen/src/serializable) and *)
(* the Wasmer runtime bindings generated for the example protocol          *)
(* (examples/example-protocol/.../rust_wasmer_runtime_test).               *)
(*                                                                         *)
(* Part 1 models Serializable::ident / ty / collect_types and the walk of  *)
(* collect_types over a shared TypeMap.                                    *)
(* Part 2 models the export wrappers of Runtime and the import wrappers    *)
(* installed by create_import_object.                                      *)
(***************************************************************************)
EXTENDS Integers, Sequences, FiniteSets, TLC

VARIABLES
    types,      \* the TypeMap: a function from TypeIdent to Type
    stack,      \* the collect_types calls that are still pending, innermost first
    root,       \* the Rust type of the current (or last) top-level collect_types call
    prevIdent,  \* the TypeIdent of the type of the top-level call before that one
    rerun,      \* TRUE while the current top-level call repeats the previous one
    sibling,    \* TRUE while the current top-level call is on another
                \* instantiation of the generic type of the previous one
    calls       \* number of top-level collect_types calls started so far

tvars == <<types, stack, root, prevIdent, rerun, sibling, calls>>

VARIABLES
    exports,    \* the names of the functions the guest module exports
    xpc,        \* per export call: the place the wrapper has reached
    xkind,      \* per export call: the wrapper called
    xreg,       \* per export call: the wrapper's local (arg, then result)
    xmem,       \* per export call: the memory of its guest instance
    leaked,     \* per export call: what its instance held, when the call
                \* returned, in buffers not freed exactly once
    xtrace,     \* per export call: the steps the host wrapper has made
    wakers,     \* per export call: the pending-futures table of its env
    resolved,   \* per export call: the handles and results the resolver accepted
    rejected,   \* per export call: the resolver invocations refused
    xresult,    \* per export call: the Result returned to the caller
    xinst,      \* per export call: the guest instance it runs on, 0 before
                \* it has one
    ninst,      \* number of guest instances created so far
    xafter,     \* per export call: the calls that had ended when it was made
    imports     \* per export call: the import object its instance was created with

xvars == <<exports, xpc, xkind, xreg, xmem, leaked, xtrace, wakers, resolved, rejected,
           xresult, xinst, ninst, xafter, imports>>

VARIABLES
    ipc,        \* per async import call: the place its spawned task has reached
    ihdl,       \* per async import call: async_ptr, the handle returned to the guest
    iresp,      \* per async import call: the value its host future completed with
    irp,        \* per async import call: result_ptr
    imem,       \* the memory of the guest instance that makes the import calls
    gpending,   \* the guest's pending futures: the handles not yet resolved
    delivered,  \* per async import call: the payloads its continuation received
    gresolves,  \* the handles the guest's resolver was invoked with, in order
    grejected,  \* number of resolver invocations the guest refused
    icur,       \* the import call the guest is inside, 0 when it is in none
    iallocs     \* the execution contexts that have invoked the guest's
                \* allocator or deallocator

ivars == <<ipc, ihdl, iresp, irp, imem, gpending, delivered, gresolves, grejected,
           icur, iallocs>>

VARIABLES
    fpc,        \* the place the FatPtr round trip has reached
    foff,       \* the offset packed, a u32
    flen,       \* the length packed, a u32
    fptr,       \* the FatPtr, a u64
    fout        \* the offset and the length unpacked from the FatPtr

fvars == <<fpc, foff, flen, fptr, fout>>

VARIABLES
    spc,        \* the place the synchronous import wrapper has reached
    skind,      \* the synchronous import wrapper the guest called
    sin,        \* the values the guest passes, before it encodes them
    sarg,       \* the arguments the guest passed to the wrapper
    sval,       \* the wrapper's locals: the arguments as the host function takes them
    shost,      \* the invocations of the host function: the arguments of each
    sresult,    \* the result the host function returned
    sret,       \* the value the wrapper returned to the guest
    smem,       \* the memory of the guest instance that calls the wrapper
    saccess,    \* the accesses to guest memory the wrapper has made, in order
    scalls      \* number of synchronous import calls the guest has made

svars == <<spc, skind, sin, sarg, sval, shost, sresult, sret, smem, saccess, scalls>>

VARIABLES
    oa,         \* the first of two types collected in both orders
    ob,         \* the second of the two types
    om,         \* the TypeMap both collections start from
    oab,        \* the TypeMap after A::collect_types, then B::collect_types
    oba,        \* the TypeMap after B::collect_types, then A::collect_types
    opc         \* the orders that have been run

ovars == <<oa, ob, om, oab, oba, opc>>

vars == <<tvars, xvars, ivars, fvars, svars, ovars>>

(***************************************************************************)
(* Bounds                                                                  *)
(***************************************************************************)
\* nesting depth of the containers in the types collected
MaxDepth == 1
\* number of top-level collect_types calls made on one TypeMap
MaxCalls == 2

(***************************************************************************)
(* Rust types.  A Rust type is a term: the name of the type constructor    *)
(* and the Rust types it is instantiated with.                             *)
(***************************************************************************)
RustTy(n, a) == [name |-> n, args |-> a]

NoType == RustTy("-", <<>>)

U64 == RustTy("u64", <<>>)
StringTy == RustTy("String", <<>>)
FPGuestErrorTy == RustTy("FPGuestError", <<>>)
\* struct Node { children: Vec<Node> }, a user-declared recursive struct
NodeTy == RustTy("Node", <<>>)

Primitives == {"u64"}
Unary == {"Box", "BTreeSet", "HashSet", "Option", "Rc", "Vec"}
Binary == {"BTreeMap", "HashMap", "Result"}

BaseTypes == {U64, StringTy, FPGuestErrorTy, NodeTy}

\* the containers that are collected nested in one another
Nesting == {"Option", "Vec"}

\* the types collected: the base types, every built-in container of base
\* types, and Option and Vec nested in one another up to depth d
RECURSIVE TypesUpTo(_)
TypesUpTo(d) ==
    IF d = 0 THEN BaseTypes
    ELSE LET inner == TypesUpTo(d - 1)
         IN  inner
             \cup {RustTy(c, <<t>>) : c \in Unary, t \in BaseTypes}
             \cup {RustTy(c, <<k, v>>) : c \in Binary, k \in BaseTypes, v \in BaseTypes}
             \cup {RustTy(c, <<t>>) : c \in Nesting, t \in {x \in inner : x.name \in Nesting}}

Roots == TypesUpTo(MaxDepth)

(***************************************************************************)
(* TypeIdent and Type                                                      *)
(***************************************************************************)
TypeIdent(n, ga) == [name |-> n, generic_args |-> ga]

\* TypeIdent::from(&str): the bare name, no generic arguments
TypeIdentFrom(n) == TypeIdent(n, <<>>)

None == <<>>
Some(x) == <<x>>

VariantAttrsDefault == [rename |-> None]
FieldAttrsDefault == [rename |-> None]

EnumOptionsDefault ==
    [variant_casing |-> "Original", content_prop_name |-> None,
     tag_prop_name |-> None, untagged |-> FALSE, native_modules |-> {}]

StructOptionsDefault == [field_casing |-> "Original", native_modules |-> {}]

\* the ident of every type is its bare name
identBare(t) == TypeIdentFrom(t.name)

\* Serializable::ident() of each implementation
ident(t) ==
    CASE t.name \in {"Box", "BTreeSet", "HashSet", "Option", "Rc", "Vec"} ->
            TypeIdent(t.name, <<TypeIdentFrom("T")>>)
      [] t.name \in {"BTreeMap", "HashMap"} ->
            TypeIdent(t.name, <<TypeIdentFrom("K"), TypeIdentFrom("V")>>)
      [] t.name = "Result" ->
            TypeIdent("Result", <<TypeIdentFrom("T"), TypeIdentFrom("E")>>)
      [] t.name = "String" -> TypeIdentFrom("String")
      [] t.name = "FPGuestError" -> TypeIdent("FPGuestError", <<>>)
      [] OTHER -> TypeIdentFrom(t.name)

\* the idents of the argument types of a generic instantiation
RECURSIVE ConcreteIdent(_)
ConcreteIdent(t) ==
    TypeIdent(t.name, [i \in 1..Len(t.args) |-> ConcreteIdent(t.args[i])])

\* the element ident is the ident of the type the container is instantiated with
ElementIdentOfArg(t) == ConcreteIdent(t.args[1])

\* the element ident inside the Type of Box, BTreeSet, HashSet, Option, Rc
\* and Vec: TypeIdent::from("T")
ElementIdent(t) == TypeIdentFrom("T")

\* the variants of Result, Err listed first
ResultVariantsErrFirst ==
    << [name |-> "Err",
        ty |-> [kind |-> "Tuple", items |-> <<TypeIdentFrom("E")>>],
        doc_lines |-> <<" Represents an error.">>,
        attrs |-> VariantAttrsDefault],
       [name |-> "Ok",
        ty |-> [kind |-> "Tuple", items |-> <<TypeIdentFrom("T")>>],
        doc_lines |-> <<" Represents a succesful result.">>,
        attrs |-> VariantAttrsDefault] >>

\* Result::ty(): the vec of variants
ResultVariants ==
    << [name |-> "Ok",
        ty |-> [kind |-> "Tuple", items |-> <<TypeIdentFrom("T")>>],
        doc_lines |-> <<" Represents a succesful result.">>,
        attrs |-> VariantAttrsDefault],
       [name |-> "Err",
        ty |-> [kind |-> "Tuple", items |-> <<TypeIdentFrom("E")>>],
        doc_lines |-> <<" Represents an error.">>,
        attrs |-> VariantAttrsDefault] >>

\* the options of FPGuestError with a content property beside the tag
FPGuestErrorOptionsAdjacent ==
    [variant_casing |-> "SnakeCase",
     content_prop_name |-> Some("content"),
     tag_prop_name |-> Some("type"),
     untagged |-> FALSE,
     native_modules |->
        {<<"rust_wasmer_runtime", "fp_bindgen_support::common::errors">>,
         <<"rust_plugin", "fp_bindgen_support::common::errors">>}]

\* FPGuestError::ty(): options: EnumOptions { .. }
FPGuestErrorOptions ==
    [variant_casing |-> "SnakeCase",
     content_prop_name |-> None,
     tag_prop_name |-> Some("type"),
     untagged |-> FALSE,
     native_modules |->
        {<<"rust_wasmer_runtime", "fp_bindgen_support::common::errors">>,
         <<"rust_plugin", "fp_bindgen_support::common::errors">>}]

\* Serializable::ty() of each implementation (doc lines without their backquotes)
ty(t) ==
    CASE t.name \in {"Box", "Option", "Rc"} ->
            [kind |-> "Container", name |-> t.name, inner |-> ElementIdent(t)]
      [] t.name \in {"BTreeSet", "HashSet", "Vec"} ->
            [kind |-> "List", name |-> t.name, inner |-> ElementIdent(t)]
      [] t.name \in {"BTreeMap", "HashMap"} ->
            [kind |-> "Map", name |-> t.name,
             key |-> TypeIdentFrom("K"), value |-> TypeIdentFrom("V")]
      [] t.name = "Result" ->
            [kind |-> "Enum", ident |-> ident(t),
             variants |-> ResultVariants,
             doc_lines |-> <<" A result that can be either successful (Ok) or represent an error (Err).">>,
             options |-> EnumOptionsDefault]
      [] t.name = "String" -> [kind |-> "String"]
      [] t.name = "FPGuestError" ->
            [kind |-> "Enum", ident |-> ident(t),
             variants |-> <<
                [name |-> "SerdeError",
                 ty |-> [kind |-> "Struct",
                         ident |-> TypeIdentFrom("SerdeError"),
                         fields |-> <<
                            [name |-> "path", ty |-> ident(StringTy),
                             doc_lines |-> <<"Path to the failed field that failed to serde">>,
                             attrs |-> FieldAttrsDefault],
                            [name |-> "message", ty |-> ident(StringTy),
                             doc_lines |-> <<>>,
                             attrs |-> FieldAttrsDefault] >>,
                         doc_lines |-> <<>>,
                         options |-> [StructOptionsDefault EXCEPT !.field_casing = "SnakeCase"]],
                 doc_lines |-> <<"Deserialization of data failed, possible mismatch between guest and runtime protocol version">>,
                 attrs |-> VariantAttrsDefault],
                [name |-> "InvalidFatPtr",
                 ty |-> [kind |-> "Unit"],
                 doc_lines |-> <<"Received an invalid FatPtr">>,
                 attrs |-> VariantAttrsDefault] >>,
             doc_lines |-> <<>>,
             options |-> FPGuestErrorOptions]
      [] t.name \in Primitives -> [kind |-> "Primitive", name |-> t.name]
      [] OTHER ->
            [kind |-> "Struct", ident |-> ident(t),
             fields |-> <<[name |-> "children",
                           ty |-> ConcreteIdent(RustTy("Vec", <<t>>)),
                           doc_lines |-> <<>>, attrs |-> FieldAttrsDefault]>>,
             doc_lines |-> <<>>,
             options |-> StructOptionsDefault]

\* Serializable::is_primitive()
is_primitive(t) == t.name \in Primitives

(***************************************************************************)
(* collect_types                                                           *)
(***************************************************************************)
\* types.entry(k).or_insert_with(v) on an entry that is already taken,
\* written so that it drops the entry
EntryToggle(m, k, v) ==
    IF k \in DOMAIN m THEN [x \in DOMAIN m \ {k} |-> m[x]] ELSE m @@ (k :> v)

\* the map replaced by the one entry instead of the entry added to it
EntryReplaceMap(m, k, v) == (k :> v)

\* types.entry(k).or_insert_with(v)
EntryOrInsert(m, k, v) ==
    IF k \in DOMAIN m THEN m ELSE m @@ (k :> v)

\* a container that recurses into itself instead of into its argument
SelfCalls(t) == <<t>>

\* the collect_types calls a built-in container makes after registering
\* itself: one per type argument, in order
ArgCalls(t) == t.args

\* the collect_types calls of a derived struct: its field types, and only
\* when the struct was not registered before
FieldCalls(t, m) ==
    IF ident(t) \in DOMAIN m THEN <<>> ELSE <<RustTy("Vec", <<t>>)>>

\* the calls T::collect_types makes after its own types.entry(..) line, on
\* the map m it was called with
Calls(t, m) ==
    CASE t.name \in Unary \cup Binary -> ArgCalls(t)
      [] t.name = "Node" -> FieldCalls(t, m)
      [] OTHER -> <<>>

\* a caller invokes T::collect_types(&mut types)
CallCollectTypes(t) ==
    /\ stack = <<>>
    /\ calls < MaxCalls
    /\ stack' = <<t>>
    /\ prevIdent' = ident(root)
    /\ root' = t
    /\ rerun' = (calls > 0 /\ t = root)
    /\ sibling' = (calls > 0 /\ t.name = root.name /\ t.args # root.args)
    /\ calls' = calls + 1
    /\ UNCHANGED <<types, xvars, ivars, fvars, svars, ovars>>

\* the innermost pending call runs: it registers its type, then calls
\* collect_types of its dependencies
collect_types ==
    /\ stack # <<>>
    /\ LET t == Head(stack)
       IN  /\ types' = EntryOrInsert(types, ident(t), ty(t))
           /\ stack' = Calls(t, types) \o Tail(stack)
    /\ UNCHANGED <<root, prevIdent, rerun, sibling, calls, xvars, ivars, fvars, svars, ovars>>

TNext ==
    \/ \E t \in Roots : CallCollectTypes(t)
    \/ collect_types

(***************************************************************************)
(* collect_types as a function of the TypeMap it is called with            *)
(***************************************************************************)
\* the pending collect_types calls run to completion on the map m, each as
\* the collect_types step above
RECURSIVE RunCalls(_, _)
RunCalls(pending, m) ==
    IF pending = <<>> THEN m
    ELSE LET t == Head(pending)
         IN  RunCalls(Calls(t, m) \o Tail(pending), EntryOrInsert(m, ident(t), ty(t)))

\* T::collect_types(&mut m)
CollectTypesInto(t, m) == RunCalls(<<t>>, m)

\* the types made of built-in implementations only
RECURSIVE IsBuiltIn(_)
IsBuiltIn(t) ==
    /\ t.name # NodeTy.name
    /\ \A i \in 1..Len(t.args) : IsBuiltIn(t.args[i])

OrderTypes == {t \in Roots : IsBuiltIn(t)}

\* a map in which the ident of Vec is already taken by another Type
StaleMap == (ident(RustTy("Vec", <<U64>>)) :> ty(StringTy))

\* the maps the two collections start from: the empty map, the maps left by
\* collecting u64 or a Vec, and the stale map
StartMaps ==
    {<<>>, StaleMap}
    \cup {CollectTypesInto(t, <<>>) : t \in {x \in OrderTypes : x.name \in {"u64", "Vec"}}}

\* A::collect_types(&mut types); B::collect_types(&mut types)
CollectAThenB ==
    /\ "ab" \notin opc
    /\ oab' = CollectTypesInto(ob, CollectTypesInto(oa, om))
    /\ opc' = opc \cup {"ab"}
    /\ UNCHANGED <<oa, ob, om, oba, tvars, xvars, ivars, fvars, svars>>

\* B::collect_types(&mut types); A::collect_types(&mut types)
CollectBThenA ==
    /\ "ba" \notin opc
    /\ oba' = CollectTypesInto(oa, CollectTypesInto(ob, om))
    /\ opc' = opc \cup {"ba"}
    /\ UNCHANGED <<oa, ob, om, oab, tvars, xvars, ivars, fvars, svars>>

ONext ==
    \/ CollectAThenB
    \/ CollectBThenA

(***************************************************************************)
(* Part 2: the Wasmer runtime bindings                                     *)
(***************************************************************************)
\* number of export calls made on the Runtime, at the same time, when every
\* wrapper is called with every argument
MaxExports == 1
\* number of export calls in flight on the Runtime at the same time, when
\* export_string and export_async_struct are called with one argument
MaxInFlight == 2
\* number of offsets the guest allocator hands out
NumOffsets == 3
\* number of times the guest invokes the host resolver during one call
MaxResolves == 2

XCalls == 1..(IF MaxExports > MaxInFlight THEN MaxExports ELSE MaxInFlight)
Offsets == 0..(NumOffsets - 1)

\* the values passed: the strings "hi" and "", as character codes
Values == {<<104, 105>>, <<>>}

\* serialize_to_vec: MessagePack, a fixstr header and the characters
serialize_to_vec(v) == <<160 + Len(v)>> \o v

\* deserialize_from_slice: the inverse; bytes that are no fixstr do not
\* deserialize
Invalid == <<"Invalid">>

deserialize_from_slice(b) ==
    IF Len(b) > 0 /\ b[1] = 160 + Len(b) - 1 THEN <<"Ok", Tail(b)>>
    ELSE Invalid

\* FatPtr: one 64-bit value, written as its two 32-bit words: the high word
\* is the offset, the low word is the length
to_fat_ptr(off, len) == <<off, len>>
fat_ptr_offset(fp) == fp[1]
fat_ptr_len(fp) == fp[2]

\* guest memory: for each offset the allocator hands out, the last buffer
\* allocated there: its bytes, what it carries, and how often it was freed
NoBuf == [data |-> <<>>, role |-> "none", frees |-> 0]
EmptyMem == [o \in Offsets |-> NoBuf]

\* the offsets malloc may return: those with no buffer, or with a buffer
\* that was freed
FreeOffsets(m) == {o \in DOMAIN m : m[o].role = "none" \/ m[o].frees = 1}

\* the guest's allocator is first fit: malloc returns the lowest offset
\* that is free
FirstFit(m) == {o \in FreeOffsets(m) : \A p \in FreeOffsets(m) : o <= p}

\* malloc(len) returned offset off; data was written there
Malloc(m, off, data, role) ==
    [m EXCEPT ![off] = [data |-> data, role |-> role, frees |-> 0]]

\* free(fat_ptr); the bytes of a freed buffer are gone
Free(m, fp) ==
    LET o == fat_ptr_offset(fp)
    IN  IF o \in DOMAIN m /\ m[o].role # "none"
        THEN [m EXCEPT ![o].frees = IF @ < 2 THEN @ + 1 ELSE @, ![o].data = <<>>]
        ELSE m

\* the bytes a fat pointer refers to
ReadBytes(m, fp) ==
    LET o == fat_ptr_offset(fp)
    IN  IF o \in DOMAIN m THEN SubSeq(m[o].data, 1, fat_ptr_len(fp)) ELSE <<>>

\* the buffers that carried an argument or a result and were not freed
\* exactly once
NotFreedOnce(m) ==
    {m[o].role : o \in {x \in DOMAIN m : m[x].role \in {"arg", "result"} /\ m[x].frees # 1}}

\* the name each export wrapper looks up
ExportName(k) ==
    CASE k = "string" -> "__fp_gen_export_string"
      [] k = "async_struct" -> "__fp_gen_export_async_struct"
      [] k = "primitive_u32" -> "__fp_gen_export_primitive_u32"
      [] k = "multiple_primitives" -> "__fp_gen_export_multiple_primitives"

Kinds == {"string", "async_struct", "primitive_u32", "multiple_primitives"}

\* the wrappers with an argument that is not primitive: it is serialized
\* and passed as a FatPtr
SerializedArg == {"string", "async_struct", "multiple_primitives"}

\* the wrappers whose guest function returns a primitive: function.call
\* returns the value itself
PrimitiveResult == {"primitive_u32", "multiple_primitives"}

\* the u32 passed to export_primitive_u32, and the primitive the guest
\* returns: a value passed in a register, written as its one word
PrimitiveArg == <<2>>
PrimitiveRet == <<5>>

\* the calls that have ended: the wrapper has returned or has panicked
Ended(c) == xpc[c] \in {"returned", "panicked"}


ExportNames == {ExportName(k) : k \in Kinds}

FunctionNotExported == <<"Err", "FunctionNotExported">>
RuntimeError == <<"Err", "RuntimeError">>
Pending == <<"Pending">>

\* export_string / export_async_struct, their first line:
\* let arg = serialize_to_vec(&arg)
ExportSerialize(c, k, v) ==
    /\ xpc[c] = "idle"
    /\ k \in SerializedArg
    /\ xkind' = [xkind EXCEPT ![c] = k]
    /\ xreg' = [xreg EXCEPT ![c] = serialize_to_vec(v)]
    /\ xtrace' = [xtrace EXCEPT ![c] = Append(@, "serialize")]
    /\ xpc' = [xpc EXCEPT ![c] = "serialized"]
    /\ xafter' = [xafter EXCEPT ![c] = {d \in XCalls : Ended(d)}]
    /\ UNCHANGED <<exports, xmem, leaked, wakers, resolved, rejected, xresult, xinst, ninst,
                   imports, tvars, ivars, fvars, svars, ovars>>

\* export_primitive_u32(arg): let result = self.export_primitive_u32_raw(arg)
ExportPrimitive(c) ==
    /\ xpc[c] = "idle"
    /\ xkind' = [xkind EXCEPT ![c] = "primitive_u32"]
    /\ xreg' = [xreg EXCEPT ![c] = PrimitiveArg]
    /\ xpc' = [xpc EXCEPT ![c] = "serialized"]
    /\ xafter' = [xafter EXCEPT ![c] = {d \in XCalls : Ended(d)}]
    /\ UNCHANGED <<exports, xmem, leaked, xtrace, wakers, resolved, rejected, xresult, xinst,
                   ninst, imports, tvars, ivars, fvars, svars, ovars>>

\* the import functions the guest declares (fp_import_signature), by name
GuestImports ==
    {
     "import_fp_adjacently_tagged", "import_fp_enum", "import_fp_flatten",
     "import_fp_internally_tagged", "import_fp_struct", "import_fp_untagged",
     "import_generics", "import_multiple_primitives", "import_primitive_bool",
     "import_primitive_f32", "import_primitive_f64", "import_primitive_i16",
     "import_primitive_i32", "import_primitive_i64", "import_primitive_i8",
     "import_primitive_u16", "import_primitive_u32", "import_primitive_u64",
     "import_primitive_u8", "import_serde_adjacently_tagged", "import_serde_enum",
     "import_serde_flatten", "import_serde_internally_tagged", "import_serde_struct",
     "import_serde_untagged", "import_string", "import_timestamp",
     "import_void_function", "log", "make_http_request"
    }

\* the name under which the host provides the import function f
ImportEntryName(f) == "__fp_gen_" \o f

\* the resolver is installed under a name the guest does not import
ResolverEntryMisnamed == "__fp_resolve_async_value"

\* create_import_object: the entry of resolve_async_value
ResolverEntry == "__fp_host_resolve_async_value"

\* create_import_object: the entries of the namespace "fp" in the order they
\* are listed, each the name and the host function installed under it
create_import_object ==
    << <<ResolverEntry, "resolve_async_value">>,
       <<"__fp_gen_import_fp_adjacently_tagged", "_import_fp_adjacently_tagged">>,
       <<"__fp_gen_import_fp_enum", "_import_fp_enum">>,
       <<"__fp_gen_import_fp_flatten", "_import_fp_flatten">>,
       <<"__fp_gen_import_fp_internally_tagged", "_import_fp_internally_tagged">>,
       <<"__fp_gen_import_fp_struct", "_import_fp_struct">>,
       <<"__fp_gen_import_fp_untagged", "_import_fp_untagged">>,
       <<"__fp_gen_import_generics", "_import_generics">>,
       <<"__fp_gen_import_multiple_primitives", "_import_multiple_primitives">>,
       <<"__fp_gen_import_primitive_bool", "_import_primitive_bool">>,
       <<"__fp_gen_import_primitive_f32", "_import_primitive_f32">>,
       <<"__fp_gen_import_primitive_f64", "_import_primitive_f64">>,
       <<"__fp_gen_import_primitive_i16", "_import_primitive_i16">>,
       <<"__fp_gen_import_primitive_i32", "_import_primitive_i32">>,
       <<"__fp_gen_import_primitive_i64", "_import_primitive_i64">>,
       <<"__fp_gen_import_primitive_i8", "_import_primitive_i8">>,
       <<"__fp_gen_import_primitive_u16", "_import_primitive_u16">>,
       <<"__fp_gen_import_primitive_u32", "_import_primitive_u32">>,
       <<"__fp_gen_import_primitive_u64", "_import_primitive_u64">>,
       <<"__fp_gen_import_primitive_u8", "_import_primitive_u8">>,
       <<"__fp_gen_import_serde_adjacently_tagged", "_import_serde_adjacently_tagged">>,
       <<"__fp_gen_import_serde_enum", "_import_serde_enum">>,
       <<"__fp_gen_import_serde_flatten", "_import_serde_flatten">>,
       <<"__fp_gen_import_serde_internally_tagged", "_import_serde_internally_tagged">>,
       <<"__fp_gen_import_serde_struct", "_import_serde_struct">>,
       <<"__fp_gen_import_serde_untagged", "_import_serde_untagged">>,
       <<"__fp_gen_import_string", "_import_string">>,
       <<"__fp_gen_import_timestamp", "_import_timestamp">>,
       <<"__fp_gen_import_void_function", "_import_void_function">>,
       <<"__fp_gen_log", "_log">>,
       <<"__fp_gen_make_http_request", "_make_http_request">> >>

\* every call runs on the instance created first
SharedInstance(c) ==
    /\ xpc[c] = "serialized"
    /\ ninst' = ninst + 1
    /\ xinst' = [xinst EXCEPT ![c] = 1]
    /\ xmem' = [xmem EXCEPT ![c] = EmptyMem]
    /\ wakers' = [wakers EXCEPT ![c] = {}]
    /\ imports' = [imports EXCEPT ![c] = create_import_object]
    /\ xpc' = [xpc EXCEPT ![c] = "instantiated"]
    /\ UNCHANGED <<exports, xkind, xreg, leaked, xtrace, resolved, rejected, xresult, xafter,
                   tvars, ivars, fvars, svars, ovars>>

\* *_raw: RuntimeInstanceData::default(), create_import_object,
\* Instance::new, env.init_with_instance
NewInstance(c) ==
    /\ xpc[c] = "serialized"
    /\ ninst' = ninst + 1
    /\ xinst' = [xinst EXCEPT ![c] = ninst + 1]
    /\ xmem' = [xmem EXCEPT ![c] = EmptyMem]
    /\ wakers' = [wakers EXCEPT ![c] = {}]
    /\ imports' = [imports EXCEPT ![c] = create_import_object]
    /\ xpc' = [xpc EXCEPT ![c] = "instantiated"]
    /\ UNCHANGED <<exports, xkind, xreg, leaked, xtrace, resolved, rejected, xresult, xafter,
                   tvars, ivars, fvars, svars, ovars>>

\* every argument goes through guest memory, a primitive as its one word
ExportToGuestRawAll(c) ==
    /\ xpc[c] = "instantiated"
    /\ \E off \in FirstFit(xmem[c]) :
        LET bytes == xreg[c]
        IN  /\ xmem' = [xmem EXCEPT ![c] = Malloc(@, off, bytes, "arg")]
            /\ xreg' = [xreg EXCEPT ![c] = IF xkind[c] \in SerializedArg
                                            THEN to_fat_ptr(off, Len(bytes))
                                            ELSE @]
    /\ xtrace' = [xtrace EXCEPT ![c] = @ \o <<"alloc", "write">>]
    /\ xpc' = [xpc EXCEPT ![c] = "exported"]
    /\ UNCHANGED <<exports, xkind, leaked, wakers, resolved, rejected, xresult, xinst, ninst,
                   xafter, imports, tvars, ivars, fvars, svars, ovars>>

\* let arg = export_to_guest_raw(&env, arg), in the wrappers with an argument
\* that is not primitive: the guest allocates a buffer of the length of the
\* bytes, the bytes are copied there, the fat pointer is the result
ExportToGuestRaw(c) ==
    /\ xpc[c] = "instantiated"
    /\ xkind[c] \in SerializedArg
    /\ \E off \in FirstFit(xmem[c]) :
        /\ xmem' = [xmem EXCEPT ![c] = Malloc(@, off, xreg[c], "arg")]
        /\ xreg' = [xreg EXCEPT ![c] = to_fat_ptr(off, Len(xreg[c]))]
    /\ xtrace' = [xtrace EXCEPT ![c] = @ \o <<"alloc", "write">>]
    /\ xpc' = [xpc EXCEPT ![c] = "exported"]
    /\ UNCHANGED <<exports, xkind, leaked, wakers, resolved, rejected, xresult, xinst, ninst,
                   xafter, imports, tvars, ivars, fvars, svars, ovars>>

\* a *_raw wrapper returns: env and instance, and with them the guest memory
\* m, are dropped
ReturnFromRaw(c, m, pc, r) ==
    /\ xpc' = [xpc EXCEPT ![c] = pc]
    /\ xresult' = [xresult EXCEPT ![c] = r]
    /\ leaked' = [leaked EXCEPT ![c] = NotFreedOnce(m)]
    /\ xmem' = [xmem EXCEPT ![c] = EmptyMem]

\* a lookup fails also when a lookup of an earlier call has failed
GetNativeFunctionPoisoned(c) ==
    /\ \/ xpc[c] = "exported"
       \/ xpc[c] = "instantiated" /\ xkind[c] \notin SerializedArg
    /\ IF /\ ExportName(xkind[c]) \in exports
          /\ \A d \in XCalls : xresult[d] # <<"Err", "FunctionNotExported">>
       THEN /\ xpc' = [xpc EXCEPT ![c] = "found"]
            /\ UNCHANGED <<xmem, leaked, xresult>>
       ELSE ReturnFromRaw(c, xmem[c], "returned", <<"Err", "FunctionNotExported">>)
    /\ UNCHANGED <<exports, xkind, xreg, xtrace, wakers, resolved, rejected, xinst, ninst,
                   xafter, imports, tvars, ivars, fvars, svars, ovars>>

\* instance.exports.get_native_function(name)
\*     .map_err(|_| InvocationError::FunctionNotExported)?
GetNativeFunction(c) ==
    /\ \/ xpc[c] = "exported"
       \/ xpc[c] = "instantiated" /\ xkind[c] \notin SerializedArg
    /\ IF ExportName(xkind[c]) \in exports
       THEN /\ xpc' = [xpc EXCEPT ![c] = "found"]
            /\ UNCHANGED <<xmem, leaked, xresult>>
       ELSE ReturnFromRaw(c, xmem[c], "returned", FunctionNotExported)
    /\ UNCHANGED <<exports, xkind, xreg, xtrace, wakers, resolved, rejected, xinst, ninst,
                   xafter, imports, tvars, ivars, fvars, svars, ovars>>

\* the length of the async value a guest allocates for a future
AsyncValueLen == 12

\* the bytes a guest returns as a result: the serialized string "hi", and
\* bytes that are not a string (a guest built against another version of
\* the protocol)
GuestResults == {serialize_to_vec(<<104, 105>>), <<192>>}

\* what the guest function does with the memory of its instance when it is
\* called with the argument arg: it reads a FatPtr argument and frees it,
\* then allocates its result (the bytes of a value for a synchronous
\* function, the async value of the future for an asynchronous one) or
\* returns a primitive result as it is; it may trap before or after it has
\* freed the argument
GuestOutcomes(m, arg, k) ==
    LET m1 == IF k \in SerializedArg THEN Free(m, arg) ELSE m
    IN  {[trap |-> TRUE, mem |-> m, ret |-> <<>>]}
        \cup {[trap |-> TRUE, mem |-> m1, ret |-> <<>>]}
        \cup CASE k = "string" ->
                    {[trap |-> FALSE,
                      mem |-> Malloc(m1, off, b, "result"),
                      ret |-> to_fat_ptr(off, Len(b))] :
                          off \in FirstFit(m1), b \in GuestResults}
                [] k = "async_struct" ->
                    {[trap |-> FALSE,
                      mem |-> Malloc(m1, off, <<>>, "future"),
                      ret |-> to_fat_ptr(off, AsyncValueLen)] :
                          off \in FirstFit(m1)}
                [] OTHER ->
                    {[trap |-> FALSE, mem |-> m1, ret |-> PrimitiveRet]}

\* a trap of the guest function is not noticed: the wrapper goes on with an
\* empty FatPtr as the result
FunctionCallIgnoringTrap(c) ==
    /\ xpc[c] = "found"
    /\ \E o \in GuestOutcomes(xmem[c], xreg[c], xkind[c]) :
        /\ xmem' = [xmem EXCEPT ![c] = o.mem]
        /\ xpc' = [xpc EXCEPT ![c] = "called"]
        /\ xreg' = [xreg EXCEPT ![c] = IF o.trap THEN to_fat_ptr(0, 0) ELSE o.ret]
        /\ xtrace' = [xtrace EXCEPT ![c] = IF o.trap THEN @ \o <<"call", "trap">>
                                             ELSE Append(@, "call")]
        /\ UNCHANGED <<leaked, xresult>>
    /\ UNCHANGED <<exports, xkind, wakers, resolved, rejected, xinst, ninst, xafter,
                   imports, tvars, ivars, fvars, svars, ovars>>

\* let result = function.call(arg)?
\* in the wrappers of a function with a primitive result this is followed
\* by Ok(result)
FunctionCall(c) ==
    /\ xpc[c] = "found"
    /\ \E o \in GuestOutcomes(xmem[c], xreg[c], xkind[c]) :
        CASE o.trap ->
                /\ ReturnFromRaw(c, o.mem, "returned", RuntimeError)
                /\ xtrace' = [xtrace EXCEPT ![c] = @ \o <<"call", "trap">>]
                /\ UNCHANGED xreg
          [] ~o.trap /\ xkind[c] \in PrimitiveResult ->
                /\ ReturnFromRaw(c, o.mem, "returned", <<"Ok", o.ret>>)
                /\ xtrace' = [xtrace EXCEPT ![c] = Append(@, "call")]
                /\ xreg' = [xreg EXCEPT ![c] = o.ret]
          [] OTHER ->
                /\ xmem' = [xmem EXCEPT ![c] = o.mem]
                /\ xpc' = [xpc EXCEPT ![c] = "called"]
                /\ xreg' = [xreg EXCEPT ![c] = o.ret]
                /\ xtrace' = [xtrace EXCEPT ![c] = Append(@, "call")]
                /\ UNCHANGED <<leaked, xresult>>
    /\ UNCHANGED <<exports, xkind, wakers, resolved, rejected, xinst, ninst, xafter,
                   imports, tvars, ivars, fvars, svars, ovars>>

\* import_from_guest_raw(&env, fat_ptr): the bytes are copied out of guest
\* memory, then the guest's free is called on the buffer
\* and the *_raw wrapper returns Ok(result)
import_from_guest_raw(c, fp) ==
    /\ xreg' = [xreg EXCEPT ![c] = ReadBytes(xmem[c], fp)]
    /\ xtrace' = [xtrace EXCEPT ![c] = @ \o <<"read", "free">>]
    /\ ReturnFromRaw(c, Free(xmem[c], fp), "raw_ok", Pending)

\* export_string_raw: let result = import_from_guest_raw(&env, result);
\* Ok(result)
ImportResult(c) ==
    /\ xpc[c] = "called"
    /\ xkind[c] = "string"
    /\ import_from_guest_raw(c, xreg[c])
    /\ UNCHANGED <<exports, xkind, wakers, resolved, rejected, xinst, ninst, xafter,
                   imports, tvars, ivars, fvars, svars, ovars>>

\* export_async_struct_raw: ModuleRawFuture::new(env.clone(), result).await,
\* first part: the handle is entered in the pending-futures table of the env
\* and the call is suspended
AwaitFuture(c) ==
    /\ xpc[c] = "called"
    /\ xkind[c] = "async_struct"
    /\ wakers' = [wakers EXCEPT ![c] = @ \cup {xreg[c]}]
    /\ xpc' = [xpc EXCEPT ![c] = "awaiting"]
    /\ xtrace' = [xtrace EXCEPT ![c] = Append(@, "await")]
    /\ UNCHANGED <<exports, xkind, xreg, xmem, leaked, resolved, rejected, xresult, xinst,
                   ninst, xafter, imports, tvars, ivars, fvars, svars, ovars>>

\* resolve_async_value(env, handle, result_ptr) woke everything
WakeUnchecked(c, h, rp) ==
    /\ wakers' = [wakers EXCEPT ![c] = @ \ {h}]
    /\ resolved' = [resolved EXCEPT ![c] = Append(@, <<h, rp, ReadBytes(xmem'[c], rp)>>)]
    /\ xpc' = [xpc EXCEPT ![c] = IF @ = "awaiting" THEN "woken" ELSE @]
    /\ UNCHANGED rejected

\* resolve_async_value(env, handle, result_ptr), bound to
\* "__fp_host_resolve_async_value": the handle is looked up in the pending
\* table and removed, and the suspended call is woken with the result; a
\* handle that is not in the table is a protocol error of this invocation
resolve_async_value(c, h, rp) ==
    IF h \in wakers[c]
    THEN /\ wakers' = [wakers EXCEPT ![c] = @ \ {h}]
         /\ resolved' = [resolved EXCEPT ![c] = Append(@, <<h, rp, ReadBytes(xmem'[c], rp)>>)]
         /\ xpc' = [xpc EXCEPT ![c] = "woken"]
         /\ UNCHANGED rejected
    ELSE /\ rejected' = [rejected EXCEPT ![c] = @ + 1]
         /\ UNCHANGED <<wakers, resolved, xpc>>

\* the handles of the async values a guest has allocated
AsyncValues(m) ==
    {to_fat_ptr(o, AsyncValueLen) : o \in {x \in DOMAIN m : m[x].role = "future"}}

\* the handles a guest passes to the resolver: the async values it has
\* allocated, and a fat pointer it never handed out
GuestHandles(m) ==
    AsyncValues(m) \cup {to_fat_ptr(NumOffsets, AsyncValueLen)}

\* the guest of call c calls the import "__fp_host_resolve_async_value" with
\* a handle and the fat pointer of the result bytes b it has written
GuestResolves(c, h, b) ==
    /\ xkind[c] = "async_struct"
    /\ xpc[c] \in {"awaiting", "woken"}
    /\ Len(resolved[c]) + rejected[c] < MaxResolves
    /\ \E off \in FirstFit(xmem[c]) :
        /\ xmem' = [xmem EXCEPT ![c] = Malloc(@, off, b, "result")]
        /\ resolve_async_value(c, h, to_fat_ptr(off, Len(b)))
    /\ UNCHANGED <<exports, xkind, xreg, leaked, xtrace, xresult, xinst, ninst, xafter,
                   imports, tvars, ivars, fvars, svars, ovars>>

\* the future is taken to be ready as soon as it is awaited
FutureReadyEarly(c) ==
    /\ xpc[c] \in {"awaiting", "woken"}
    /\ import_from_guest_raw(c, IF resolved[c] = <<>> THEN to_fat_ptr(0, 0)
                               ELSE resolved[c][Len(resolved[c])][2])
    /\ UNCHANGED <<exports, xkind, wakers, resolved, rejected, xinst, ninst, xafter,
                   imports, tvars, ivars, fvars, svars, ovars>>

\* export_async_struct_raw: the future is ready: its result is read from
\* guest memory; Ok(result)
FutureReady(c) ==
    /\ xpc[c] = "woken"
    /\ import_from_guest_raw(c, resolved[c][Len(resolved[c])][2])
    /\ UNCHANGED <<exports, xkind, wakers, resolved, rejected, xinst, ninst, xafter,
                   imports, tvars, ivars, fvars, svars, ovars>>

\* the wrapper hands the bytes of the guest to its caller as they are
ExportDeserializeSkipped(c) ==
    /\ xpc[c] = "raw_ok"
    /\ xresult' = [xresult EXCEPT ![c] = <<"Ok", xreg[c]>>]
    /\ xpc' = [xpc EXCEPT ![c] = "returned"]
    /\ UNCHANGED <<exports, xkind, xreg, xmem, leaked, xtrace, wakers, resolved, rejected,
                   xinst, ninst, xafter, imports, tvars, ivars, fvars, svars, ovars>>

\* export_string / export_async_struct, their last lines:
\* result.map(|ref data| deserialize_from_slice(data)).  The closure gives
\* the value itself, not a Result: when the bytes do not deserialize there
\* is no value to give and no error to return, the call panics
ExportDeserialize(c) ==
    /\ xpc[c] = "raw_ok"
    /\ xtrace' = [xtrace EXCEPT ![c] = Append(@, "deserialize")]
    /\ IF deserialize_from_slice(xreg[c]) = Invalid
       THEN /\ xpc' = [xpc EXCEPT ![c] = "panicked"]
            /\ UNCHANGED xresult
       ELSE /\ xpc' = [xpc EXCEPT ![c] = "returned"]
            /\ xresult' = [xresult EXCEPT ![c] = deserialize_from_slice(xreg[c])]
    /\ UNCHANGED <<exports, xkind, xreg, xmem, leaked, wakers, resolved, rejected,
                   xinst, ninst, xafter, imports, tvars, ivars, fvars, svars, ovars>>

XNext ==
    \/ \E c \in 1..MaxExports, k \in Kinds, v \in Values : ExportSerialize(c, k, v)
    \/ \E c \in 1..MaxExports : ExportPrimitive(c)
    \/ \E c \in 1..MaxExports : NewInstance(c)
    \/ \E c \in 1..MaxExports : ExportToGuestRaw(c)
    \/ \E c \in 1..MaxExports : GetNativeFunction(c)
    \/ \E c \in 1..MaxExports : FunctionCall(c)
    \/ \E c \in 1..MaxExports : ImportResult(c)
    \/ \E c \in 1..MaxExports : AwaitFuture(c)
    \/ \E c \in 1..MaxExports, b \in GuestResults :
            \E h \in GuestHandles(xmem[c]) : GuestResolves(c, h, b)
    \/ \E c \in 1..MaxExports : FutureReady(c)
    \/ \E c \in 1..MaxExports : ExportDeserialize(c)

\* several calls of export_string and export_async_struct are in flight at
\* the same time, each with the argument "hi"
InFlightKinds == {"string", "async_struct"}

CNext ==
    \/ \E c \in 1..MaxInFlight, k \in InFlightKinds : ExportSerialize(c, k, <<104, 105>>)
    \/ \E c \in 1..MaxInFlight : NewInstance(c)
    \/ \E c \in 1..MaxInFlight : ExportToGuestRaw(c)
    \/ \E c \in 1..MaxInFlight : GetNativeFunction(c)
    \/ \E c \in 1..MaxInFlight : FunctionCall(c)
    \/ \E c \in 1..MaxInFlight : ImportResult(c)
    \/ \E c \in 1..MaxInFlight : AwaitFuture(c)
    \/ \E c \in 1..MaxInFlight :
            \E h \in GuestHandles(xmem[c]) :
                GuestResolves(c, h, serialize_to_vec(<<104, 105>>))
    \/ \E c \in 1..MaxInFlight : FutureReady(c)
    \/ \E c \in 1..MaxInFlight : ExportDeserialize(c)

(***************************************************************************)
(* The asynchronous import make_http_request                               *)
(***************************************************************************)
\* number of make_http_request calls the guest has in flight at once
MaxImports == 2

ICalls == 1..MaxImports

\* the guest has room for the async value and the result of every call
IOffsets == 0..(2 * MaxImports - 1)

NoPtr == <<>>

\* the execution contexts: the one that drives the guest's current call,
\* in which the import wrapper runs, and a task spawned on the tokio
\* runtime, which runs whenever the runtime schedules it
DrivingContext == "call"
SpawnedTask(busy) == IF busy THEN "task_during_call" ELSE "task"

\* _make_http_request(env, request), called by the guest with the fat
\* pointer of a request it has written at offset ro: import_from_guest reads
\* and frees the request, super::make_http_request starts the future,
\* create_future_value allocates the pending async value in guest memory,
\* the task is spawned.  The guest makes its calls one after the other;
\* they are numbered in the order they are made.
MakeHttpRequest(i) ==
    /\ ipc[i] = "idle"
    /\ \A j \in ICalls : j < i => ipc[j] # "idle"
    /\ icur = 0
    /\ icur' = i
    /\ iallocs' = iallocs \cup {DrivingContext}
    /\ \E ro \in FirstFit(imem) :
        LET request == to_fat_ptr(ro, 1)
            m1 == Free(Malloc(imem, ro, <<192>>, "arg"), request)
        IN  \E ao \in FirstFit(m1) :
                LET async_ptr == to_fat_ptr(ao, AsyncValueLen)
                IN  /\ imem' = Malloc(m1, ao, <<>>, "future")
                    /\ ihdl' = [ihdl EXCEPT ![i] = async_ptr]
                    /\ gpending' = gpending \cup {async_ptr}
    /\ ipc' = [ipc EXCEPT ![i] = "spawned"]
    /\ UNCHANGED <<iresp, irp, delivered, gresolves, grejected, tvars, xvars, fvars, svars, ovars>>

\* _make_http_request, its last line: async_ptr is returned to the guest
ReturnAsyncPtr(i) ==
    /\ icur = i
    /\ icur' = 0
    /\ UNCHANGED <<ipc, ihdl, iresp, irp, imem, gpending, delivered, gresolves,
                   grejected, iallocs, tvars, xvars, fvars, svars, ovars>>

\* the spawned task: let result = result.await
TaskAwait(i, r) ==
    /\ ipc[i] = "spawned"
    /\ iresp' = [iresp EXCEPT ![i] = r]
    /\ ipc' = [ipc EXCEPT ![i] = "ready"]
    /\ UNCHANGED <<ihdl, irp, imem, gpending, delivered, gresolves, grejected,
                   icur, iallocs, tvars, xvars, fvars, svars, ovars>>

\* the task allocates the buffer and passes on a fat pointer of length 0
TaskExportToGuestEmpty(i) ==
    /\ ipc[i] = "ready"
    /\ \E off \in FirstFit(imem) :
        LET bytes == serialize_to_vec(iresp[i])
        IN  /\ imem' = Malloc(imem, off, bytes, "result")
            /\ irp' = [irp EXCEPT ![i] = to_fat_ptr(off, 0)]
    /\ ipc' = [ipc EXCEPT ![i] = "exported"]
    /\ iallocs' = iallocs \cup {SpawnedTask(icur # 0)}
    /\ UNCHANGED <<ihdl, iresp, gpending, delivered, gresolves, grejected, icur,
                   tvars, xvars, fvars, svars, ovars>>

\* the spawned task: let result_ptr = export_to_guest(&env, &result)
TaskExportToGuest(i) ==
    /\ ipc[i] = "ready"
    /\ \E off \in FirstFit(imem) :
        LET bytes == serialize_to_vec(iresp[i])
        IN  /\ imem' = Malloc(imem, off, bytes, "result")
            /\ irp' = [irp EXCEPT ![i] = to_fat_ptr(off, Len(bytes))]
    /\ ipc' = [ipc EXCEPT ![i] = "exported"]
    /\ iallocs' = iallocs \cup {SpawnedTask(icur # 0)}
    /\ UNCHANGED <<ihdl, iresp, gpending, delivered, gresolves, grejected, icur,
                   tvars, xvars, fvars, svars, ovars>>

\* the guest's resolver, called with a handle and the fat pointer of the
\* result: a pending handle is removed from the table and the continuation
\* that waits for it receives the result bytes, which are read and freed; a
\* handle that is not pending is refused
guest_resolve_async_value(h, rp) ==
    /\ gresolves' = Append(gresolves, h)
    /\ UNCHANGED iallocs
    /\ IF h \in gpending
       THEN /\ gpending' = gpending \ {h}
            /\ delivered' = [j \in ICalls |->
                                IF ihdl[j] = h
                                THEN Append(delivered[j], ReadBytes(imem, rp))
                                ELSE delivered[j]]
            /\ imem' = Free(imem, rp)
            /\ UNCHANGED grejected
       ELSE /\ grejected' = grejected + 1
            /\ UNCHANGED <<gpending, delivered, imem>>

\* the task resolves and stays where it is
TaskResolveAgain(i) ==
    /\ ipc[i] = "exported"
    /\ Len(gresolves) <= MaxImports
    /\ guest_resolve_async_value(ihdl[i], irp[i])
    /\ UNCHANGED <<ipc, ihdl, iresp, irp, icur, tvars, xvars, fvars, svars, ovars>>

\* the task resolves the handle created last instead of its own
TaskResolveLatest(i) ==
    /\ ipc[i] = "exported"
    /\ LET last == CHOOSE j \in ICalls :
                      /\ ipc[j] # "idle"
                      /\ \A k \in ICalls : ipc[k] # "idle" => k <= j
       IN  guest_resolve_async_value(ihdl[last], irp[i])
    /\ ipc' = [ipc EXCEPT ![i] = "done"]
    /\ UNCHANGED <<ihdl, iresp, irp, icur, tvars, xvars, fvars, svars, ovars>>

\* the spawned task: env.guest_resolve_async_value(async_ptr, result_ptr)
TaskResolve(i) ==
    /\ ipc[i] = "exported"
    /\ guest_resolve_async_value(ihdl[i], irp[i])
    /\ ipc' = [ipc EXCEPT ![i] = "done"]
    /\ UNCHANGED <<ihdl, iresp, irp, icur, tvars, xvars, fvars, svars, ovars>>

INext ==
    \/ \E i \in ICalls : MakeHttpRequest(i)
    \/ \E i \in ICalls : ReturnAsyncPtr(i)
    \/ \E i \in ICalls, r \in Values : TaskAwait(i, r)
    \/ \E i \in ICalls : TaskExportToGuest(i)
    \/ \E i \in ICalls : TaskResolve(i)

(***************************************************************************)
(* The synchronous import wrappers _import_string,                         *)
(* _import_multiple_primitives and _import_primitive_u32                   *)
(***************************************************************************)
\* number of synchronous import calls the guest makes, one after the other
MaxSyncImports == 2

\* the guest has room for one argument and for the result of every call
SOffsets == 0..MaxSyncImports

SyncKinds == {"string", "multiple_primitives", "primitive_u32"}

\* the wrappers that take a fat pointer, and the one that returns one
FatPtrArg == {"string", "multiple_primitives"}
FatPtrResult == {"string"}

\* the primitive values passed and returned, each one word
Words == {PrimitiveArg, PrimitiveRet}

\* the guest calls the import: it serializes a String argument into its
\* memory and passes the fat pointer; a primitive argument is passed as it is
GuestCallsImport(k, p, v) ==
    /\ spc \in {"idle", "returned"}
    /\ scalls < MaxSyncImports
    /\ scalls' = scalls + 1
    /\ skind' = k
    /\ IF k \in FatPtrArg
       THEN \E off \in FirstFit(smem) :
                LET bytes == serialize_to_vec(v)
                    fp == to_fat_ptr(off, Len(bytes))
                IN  /\ sin' = IF k = "string" THEN <<v>> ELSE <<p, v>>
                    /\ sarg' = IF k = "string" THEN <<fp>> ELSE <<p, fp>>
                    /\ smem' = Malloc(smem, off, bytes, "arg")
       ELSE /\ sin' = <<p>>
            /\ sarg' = <<p>>
            /\ smem' = smem
    /\ sval' = <<>>
    /\ shost' = <<>>
    /\ sresult' = <<>>
    /\ sret' = NoPtr
    /\ saccess' = <<>>
    /\ spc' = "entered"
    /\ UNCHANGED <<tvars, xvars, ivars, fvars, ovars>>

\* let arg = import_from_guest::<String>(env, arg): the bytes are copied out
\* of guest memory, the guest's free is called on the buffer, the bytes are
\* deserialized; the arguments before it are left as they are
ImportFromGuest ==
    /\ spc = "entered"
    /\ skind \in FatPtrArg
    /\ LET n == Len(sarg)
           fp == sarg[n]
       IN  /\ sval' = [sarg EXCEPT ![n] = deserialize_from_slice(ReadBytes(smem, fp))[2]]
           /\ smem' = Free(smem, fp)
           /\ saccess' = Append(saccess, <<"read", fp>>)
    /\ spc' = "imported"
    /\ UNCHANGED <<skind, sin, sarg, shost, sresult, sret, scalls,
                   tvars, xvars, ivars, fvars, ovars>>

\* the arguments the host function is called with
HostArgs == IF skind \in FatPtrArg THEN sval ELSE sarg

\* the wrapper is at its call of the host function
AtHostCall ==
    \/ skind \in FatPtrArg /\ spc = "imported"
    \/ skind \in SyncKinds \ FatPtrArg /\ spc = "entered"

\* the host function is invoked twice
HostFunctionTwice(r) ==
    /\ AtHostCall
    /\ r \in (IF skind \in FatPtrResult THEN Values ELSE Words)
    /\ shost' = shost \o <<HostArgs, HostArgs>>
    /\ sresult' = r
    /\ spc' = "called"
    /\ UNCHANGED <<skind, sin, sarg, sval, sret, smem, saccess, scalls,
                   tvars, xvars, ivars, fvars, ovars>>

\* let result = super::import_string(arg), import_multiple_primitives(arg1,
\* arg2), import_primitive_u32(arg): the host function returns r
HostFunction(r) ==
    /\ AtHostCall
    /\ r \in (IF skind \in FatPtrResult THEN Values ELSE Words)
    /\ shost' = Append(shost, HostArgs)
    /\ sresult' = r
    /\ spc' = "called"
    /\ UNCHANGED <<skind, sin, sarg, sval, sret, smem, saccess, scalls,
                   tvars, xvars, ivars, fvars, ovars>>

\* export_to_guest(env, &result): the result is serialized, the guest
\* allocates a buffer, the bytes are copied there, the fat pointer is returned
ExportToGuest ==
    /\ spc = "called"
    /\ skind \in FatPtrResult
    /\ \E off \in FirstFit(smem) :
        LET bytes == serialize_to_vec(sresult)
            fp == to_fat_ptr(off, Len(bytes))
        IN  /\ smem' = Malloc(smem, off, bytes, "result")
            /\ saccess' = Append(saccess, <<"write", fp>>)
            /\ sret' = fp
    /\ spc' = "returned"
    /\ UNCHANGED <<skind, sin, sarg, sval, shost, sresult, scalls,
                   tvars, xvars, ivars, fvars, ovars>>

\* result: the primitive result is the wrapper's return value
ReturnPrimitive ==
    /\ spc = "called"
    /\ skind \in SyncKinds \ FatPtrResult
    /\ sret' = sresult
    /\ spc' = "returned"
    /\ UNCHANGED <<skind, sin, sarg, sval, shost, sresult, smem, saccess, scalls,
                   tvars, xvars, ivars, fvars, ovars>>

SNext ==
    \/ \E k \in SyncKinds, p \in Words, v \in Values : GuestCallsImport(k, p, v)
    \/ ImportFromGuest
    \/ \E r \in Values \cup Words : HostFunction(r)
    \/ ExportToGuest
    \/ ReturnPrimitive

(***************************************************************************)
(* FatPtr.  An unsigned integer is written as the set of the positions of  *)
(* its one bits, bit 0 being the least significant.                        *)
(***************************************************************************)
\* number of bit positions that vary in the offsets and lengths packed
NumSampleBits == 4

\* the positions that vary, taken in this order: the ends of the word, the
\* middle, their neighbours
SampleBitOrder == <<31, 0, 16, 15, 1, 30, 17, 8>>

U32Bits == 0..31
U64Bits == 0..63

\* the u32 values packed: every combination of the sample bits, among them
\* 0, 1 and 2^31, and 2^32 - 1
U32Samples ==
    SUBSET {SampleBitOrder[i] : i \in 1..NumSampleBits} \cup {U32Bits}

\* x << n and x >> n on a u64, x | y, x & y
Shl(x, n) == {i + n : i \in x} \cap U64Bits
Shr(x, n) == {i - n : i \in {j \in x : j >= n}}
BitOr(x, y) == x \cup y
BitAnd(x, y) == x \cap y

\* the offset is shifted by one bit less than the width of the length
FatPtrNarrow(off, len) == BitOr(Shl(off, 31), len)

\* to_fat_ptr: (ptr as FatPtr) << 32 | (len as FatPtr)
FatPtr(off, len) == BitOr(Shl(off, 32), len)

\* from_fat_ptr: ((ptr >> 32) as u32, (ptr & 0xffffffff) as u32)
from_fat_ptr(fp) == <<BitAnd(Shr(fp, 32), U32Bits), BitAnd(fp, U32Bits)>>

NoFatPtr == {}

ToFatPtr ==
    /\ fpc = "input"
    /\ fptr' = FatPtr(foff, flen)
    /\ fpc' = "packed"
    /\ UNCHANGED <<foff, flen, fout, tvars, xvars, ivars, svars, ovars>>

FromFatPtr ==
    /\ fpc = "packed"
    /\ fout' = from_fat_ptr(fptr)
    /\ fpc' = "unpacked"
    /\ UNCHANGED <<foff, flen, fptr, tvars, xvars, ivars, svars, ovars>>

FNext ==
    \/ ToFatPtr
    \/ FromFatPtr

(***************************************************************************)
(* Specifications                                                          *)
(***************************************************************************)
\* the state after construction when no guest module is loaded: an empty
\* TypeMap, no call of a wrapper in progress
Init ==
    /\ types = <<>>
    /\ stack = <<>>
    /\ root = NoType
    /\ prevIdent = ident(NoType)
    /\ rerun = FALSE
    /\ sibling = FALSE
    /\ calls = 0
    /\ exports = {}
    /\ xpc = [c \in XCalls |-> "idle"]
    /\ xkind = [c \in XCalls |-> "none"]
    /\ xreg = [c \in XCalls |-> <<>>]
    /\ xmem = [c \in XCalls |-> EmptyMem]
    /\ leaked = [c \in XCalls |-> {}]
    /\ xtrace = [c \in XCalls |-> <<>>]
    /\ wakers = [c \in XCalls |-> {}]
    /\ resolved = [c \in XCalls |-> <<>>]
    /\ rejected = [c \in XCalls |-> 0]
    /\ xresult = [c \in XCalls |-> Pending]
    /\ xinst = [c \in XCalls |-> 0]
    /\ ninst = 0
    /\ xafter = [c \in XCalls |-> {}]
    /\ imports = [c \in XCalls |-> <<>>]
    /\ ipc = [i \in ICalls |-> "idle"]
    /\ ihdl = [i \in ICalls |-> NoPtr]
    /\ iresp = [i \in ICalls |-> <<>>]
    /\ irp = [i \in ICalls |-> NoPtr]
    /\ imem = [o \in IOffsets |-> NoBuf]
    /\ gpending = {}
    /\ delivered = [i \in ICalls |-> <<>>]
    /\ gresolves = <<>>
    /\ grejected = 0
    /\ icur = 0
    /\ iallocs = {}
    /\ fpc = "input"
    /\ foff = {}
    /\ flen = {}
    /\ fptr = NoFatPtr
    /\ fout = <<{}, {}>>
    /\ spc = "idle"
    /\ skind = "none"
    /\ sin = <<>>
    /\ sarg = <<>>
    /\ sval = <<>>
    /\ shost = <<>>
    /\ sresult = <<>>
    /\ sret = NoPtr
    /\ smem = [o \in SOffsets |-> NoBuf]
    /\ saccess = <<>>
    /\ scalls = 0
    /\ oa = NoType
    /\ ob = NoType
    /\ om = <<>>
    /\ oab = <<>>
    /\ oba = <<>>
    /\ opc = {}

\* the state after Runtime::new: the module loaded exports any subset of the
\* functions the wrappers look up
RuntimeInit ==
    /\ types = <<>>
    /\ stack = <<>>
    /\ root = NoType
    /\ prevIdent = ident(NoType)
    /\ rerun = FALSE
    /\ sibling = FALSE
    /\ calls = 0
    /\ exports \in SUBSET ExportNames
    /\ xpc = [c \in XCalls |-> "idle"]
    /\ xkind = [c \in XCalls |-> "none"]
    /\ xreg = [c \in XCalls |-> <<>>]
    /\ xmem = [c \in XCalls |-> EmptyMem]
    /\ leaked = [c \in XCalls |-> {}]
    /\ xtrace = [c \in XCalls |-> <<>>]
    /\ wakers = [c \in XCalls |-> {}]
    /\ resolved = [c \in XCalls |-> <<>>]
    /\ rejected = [c \in XCalls |-> 0]
    /\ xresult = [c \in XCalls |-> Pending]
    /\ xinst = [c \in XCalls |-> 0]
    /\ ninst = 0
    /\ xafter = [c \in XCalls |-> {}]
    /\ imports = [c \in XCalls |-> <<>>]
    /\ ipc = [i \in ICalls |-> "idle"]
    /\ ihdl = [i \in ICalls |-> NoPtr]
    /\ iresp = [i \in ICalls |-> <<>>]
    /\ irp = [i \in ICalls |-> NoPtr]
    /\ imem = [o \in IOffsets |-> NoBuf]
    /\ gpending = {}
    /\ delivered = [i \in ICalls |-> <<>>]
    /\ gresolves = <<>>
    /\ grejected = 0
    /\ icur = 0
    /\ iallocs = {}
    /\ fpc = "input"
    /\ foff = {}
    /\ flen = {}
    /\ fptr = NoFatPtr
    /\ fout = <<{}, {}>>
    /\ spc = "idle"
    /\ skind = "none"
    /\ sin = <<>>
    /\ sarg = <<>>
    /\ sval = <<>>
    /\ shost = <<>>
    /\ sresult = <<>>
    /\ sret = NoPtr
    /\ smem = [o \in SOffsets |-> NoBuf]
    /\ saccess = <<>>
    /\ scalls = 0
    /\ oa = NoType
    /\ ob = NoType
    /\ om = <<>>
    /\ oab = <<>>
    /\ oba = <<>>
    /\ opc = {}

\* the state after Runtime::new, of the wrappers called concurrently: the
\* module loaded exports any subset of the functions they look up
InFlightInit ==
    /\ types = <<>>
    /\ stack = <<>>
    /\ root = NoType
    /\ prevIdent = ident(NoType)
    /\ rerun = FALSE
    /\ sibling = FALSE
    /\ calls = 0
    /\ exports \in SUBSET {ExportName(k) : k \in InFlightKinds}
    /\ xpc = [c \in XCalls |-> "idle"]
    /\ xkind = [c \in XCalls |-> "none"]
    /\ xreg = [c \in XCalls |-> <<>>]
    /\ xmem = [c \in XCalls |-> EmptyMem]
    /\ leaked = [c \in XCalls |-> {}]
    /\ xtrace = [c \in XCalls |-> <<>>]
    /\ wakers = [c \in XCalls |-> {}]
    /\ resolved = [c \in XCalls |-> <<>>]
    /\ rejected = [c \in XCalls |-> 0]
    /\ xresult = [c \in XCalls |-> Pending]
    /\ xinst = [c \in XCalls |-> 0]
    /\ ninst = 0
    /\ xafter = [c \in XCalls |-> {}]
    /\ imports = [c \in XCalls |-> <<>>]
    /\ ipc = [i \in ICalls |-> "idle"]
    /\ ihdl = [i \in ICalls |-> NoPtr]
    /\ iresp = [i \in ICalls |-> <<>>]
    /\ irp = [i \in ICalls |-> NoPtr]
    /\ imem = [o \in IOffsets |-> NoBuf]
    /\ gpending = {}
    /\ delivered = [i \in ICalls |-> <<>>]
    /\ gresolves = <<>>
    /\ grejected = 0
    /\ icur = 0
    /\ iallocs = {}
    /\ fpc = "input"
    /\ foff = {}
    /\ flen = {}
    /\ fptr = NoFatPtr
    /\ fout = <<{}, {}>>
    /\ spc = "idle"
    /\ skind = "none"
    /\ sin = <<>>
    /\ sarg = <<>>
    /\ sval = <<>>
    /\ shost = <<>>
    /\ sresult = <<>>
    /\ sret = NoPtr
    /\ smem = [o \in SOffsets |-> NoBuf]
    /\ saccess = <<>>
    /\ scalls = 0
    /\ oa = NoType
    /\ ob = NoType
    /\ om = <<>>
    /\ oab = <<>>
    /\ oba = <<>>
    /\ opc = {}

\* an offset and a length are about to be packed
FatPtrInit ==
    /\ types = <<>>
    /\ stack = <<>>
    /\ root = NoType
    /\ prevIdent = ident(NoType)
    /\ rerun = FALSE
    /\ sibling = FALSE
    /\ calls = 0
    /\ exports = {}
    /\ xpc = [c \in XCalls |-> "idle"]
    /\ xkind = [c \in XCalls |-> "none"]
    /\ xreg = [c \in XCalls |-> <<>>]
    /\ xmem = [c \in XCalls |-> EmptyMem]
    /\ leaked = [c \in XCalls |-> {}]
    /\ xtrace = [c \in XCalls |-> <<>>]
    /\ wakers = [c \in XCalls |-> {}]
    /\ resolved = [c \in XCalls |-> <<>>]
    /\ rejected = [c \in XCalls |-> 0]
    /\ xresult = [c \in XCalls |-> Pending]
    /\ xinst = [c \in XCalls |-> 0]
    /\ ninst = 0
    /\ xafter = [c \in XCalls |-> {}]
    /\ imports = [c \in XCalls |-> <<>>]
    /\ ipc = [i \in ICalls |-> "idle"]
    /\ ihdl = [i \in ICalls |-> NoPtr]
    /\ iresp = [i \in ICalls |-> <<>>]
    /\ irp = [i \in ICalls |-> NoPtr]
    /\ imem = [o \in IOffsets |-> NoBuf]
    /\ gpending = {}
    /\ delivered = [i \in ICalls |-> <<>>]
    /\ gresolves = <<>>
    /\ grejected = 0
    /\ icur = 0
    /\ iallocs = {}
    /\ fpc = "input"
    /\ foff \in U32Samples
    /\ flen \in U32Samples
    /\ fptr = NoFatPtr
    /\ fout = <<{}, {}>>
    /\ spc = "idle"
    /\ skind = "none"
    /\ sin = <<>>
    /\ sarg = <<>>
    /\ sval = <<>>
    /\ shost = <<>>
    /\ sresult = <<>>
    /\ sret = NoPtr
    /\ smem = [o \in SOffsets |-> NoBuf]
    /\ saccess = <<>>
    /\ scalls = 0
    /\ oa = NoType
    /\ ob = NoType
    /\ om = <<>>
    /\ oab = <<>>
    /\ oba = <<>>
    /\ opc = {}

\* the resolver at code-generation time; no runtime exists
\* two built-in types and a starting TypeMap, before either order has run
OrderInit ==
    /\ types = <<>>
    /\ stack = <<>>
    /\ root = NoType
    /\ prevIdent = ident(NoType)
    /\ rerun = FALSE
    /\ sibling = FALSE
    /\ calls = 0
    /\ exports = {}
    /\ xpc = [c \in XCalls |-> "idle"]
    /\ xkind = [c \in XCalls |-> "none"]
    /\ xreg = [c \in XCalls |-> <<>>]
    /\ xmem = [c \in XCalls |-> EmptyMem]
    /\ leaked = [c \in XCalls |-> {}]
    /\ xtrace = [c \in XCalls |-> <<>>]
    /\ wakers = [c \in XCalls |-> {}]
    /\ resolved = [c \in XCalls |-> <<>>]
    /\ rejected = [c \in XCalls |-> 0]
    /\ xresult = [c \in XCalls |-> Pending]
    /\ xinst = [c \in XCalls |-> 0]
    /\ ninst = 0
    /\ xafter = [c \in XCalls |-> {}]
    /\ imports = [c \in XCalls |-> <<>>]
    /\ ipc = [i \in ICalls |-> "idle"]
    /\ ihdl = [i \in ICalls |-> NoPtr]
    /\ iresp = [i \in ICalls |-> <<>>]
    /\ irp = [i \in ICalls |-> NoPtr]
    /\ imem = [o \in IOffsets |-> NoBuf]
    /\ gpending = {}
    /\ delivered = [i \in ICalls |-> <<>>]
    /\ gresolves = <<>>
    /\ grejected = 0
    /\ icur = 0
    /\ iallocs = {}
    /\ fpc = "input"
    /\ foff = {}
    /\ flen = {}
    /\ fptr = NoFatPtr
    /\ fout = <<{}, {}>>
    /\ spc = "idle"
    /\ skind = "none"
    /\ sin = <<>>
    /\ sarg = <<>>
    /\ sval = <<>>
    /\ shost = <<>>
    /\ sresult = <<>>
    /\ sret = NoPtr
    /\ smem = [o \in SOffsets |-> NoBuf]
    /\ saccess = <<>>
    /\ scalls = 0
    /\ oa \in OrderTypes
    /\ ob \in OrderTypes
    /\ om \in StartMaps
    /\ oab = <<>>
    /\ oba = <<>>
    /\ opc = {}

Spec == Init /\ [][TNext]_vars

LiveSpec == Spec /\ WF_vars(collect_types)

\* the export wrappers of the Runtime
ExportSpec == RuntimeInit /\ [][XNext]_vars

\* the executor polls a future that has been woken
ExportLiveSpec ==
    ExportSpec /\ \A c \in 1..MaxExports : WF_vars(FutureReady(c))

\* export wrappers called concurrently
InFlightSpec == InFlightInit /\ [][CNext]_vars

\* the asynchronous import wrapper and the tasks it spawns
ImportSpec == Init /\ [][INext]_vars

\* the round trip of an offset and a length through a FatPtr
FatPtrSpec == FatPtrInit /\ [][FNext]_vars

\* the synchronous import wrappers, called by the guest one after the other
SyncImportSpec == Init /\ [][SNext]_vars

\* two types collected in both orders from the same map
OrderSpec == OrderInit /\ [][ONext]_vars

(***************************************************************************)
(* Properties of collect_types                                             *)
(***************************************************************************)
\* the Rust types the shape of t refers to: element, key and value types,
\* variant payload types, field types
Refs(t) ==
    CASE t.name \in Unary \cup Binary -> {t.args[i] : i \in 1..Len(t.args)}
      [] t.name = "FPGuestError" -> {StringTy}
      [] t.name = "Node" -> {RustTy("Vec", <<t>>)}
      [] OTHER -> {}

\* t and every type its shape refers to, transitively
RECURSIVE ReachFrom(_, _)
ReachFrom(todo, seen) ==
    IF todo = {} THEN seen
    ELSE LET t == CHOOSE x \in todo : TRUE
         IN  ReachFrom((todo \cup Refs(t)) \ (seen \cup {t}), seen \cup {t})

Reach(t) == ReachFrom({t}, {})

Idle == stack = <<>>

\* C1: a top-level collect_types call that repeats the previous one leaves
\* the type map exactly as the first run left it: no step of the second run
\* adds, changes or removes an entry
C1_Idempotent == [][rerun => types' = types]_tvars

\* a generic instantiation has been collected twice in a row
C1_Witness ==
    /\ Idle /\ rerun
    /\ root = RustTy("Vec", <<U64>>)
    /\ ident(root) \in DOMAIN types

\* C2: every collect_types walk ends: whenever calls are pending, a state
\* with no pending call follows
C2_Terminates == (stack # <<>>) ~> (stack = <<>>)

\* the walk over the recursive struct came back to the struct through its
\* Vec field and has ended
C2_Witness ==
    /\ Idle /\ calls = 1
    /\ root = NodeTy
    /\ {ident(NodeTy), ident(RustTy("Vec", <<NodeTy>>))} \subseteq DOMAIN types

\* C3: two instantiations of one generic built-in with different arguments
\* have different TypeIdents, and once both are collected the map has an
\* entry for each
C3_DistinctInstantiations ==
    (/\ Idle /\ sibling
     /\ root.name \in Unary \cup Binary)
    => /\ prevIdent # ident(root)
       /\ {prevIdent, ident(root)} \subseteq DOMAIN types

\* C4: when T::collect_types has returned, the map has an entry for T and
\* for every type T's shape refers to, transitively
C4_Complete ==
    (Idle /\ calls > 0) => \A s \in Reach(root) : ident(s) \in DOMAIN types

C20_SetShape ==
    \A t \in Roots :
        (Idle /\ ident(t) \in DOMAIN types) =>
            /\ t.name \in {"BTreeSet", "HashSet"} =>
                    types[ident(t)] =
                        [kind |-> "Set", name |-> t.name, inner |-> TypeIdentFrom("T")]
            /\ t.name = "Vec" =>
                    types[ident(t)] =
                        [kind |-> "List", name |-> t.name, inner |-> TypeIdentFrom("T")]

\* C21: Result<T, E> is registered as an enum whose embedded ident is the
\* key it is registered under, with the two variants Ok and Err in this
\* order, each with a tuple payload of one element, the first generic
\* argument of the ident for Ok and the second for Err, and with the default
\* enum options, which select external tagging
C21_ResultShape ==
    \A t \in Roots :
        (t.name = "Result" /\ ident(t) \in DOMAIN types) =>
            LET k == ident(t)
                e == types[k]
            IN  /\ e.kind = "Enum"
                /\ e.ident = k
                /\ Len(k.generic_args) = 2
                /\ Len(e.variants) = 2
                /\ e.variants[1].name = "Ok"
                /\ e.variants[1].ty = [kind |-> "Tuple", items |-> <<k.generic_args[1]>>]
                /\ e.variants[2].name = "Err"
                /\ e.variants[2].ty = [kind |-> "Tuple", items |-> <<k.generic_args[2]>>]
                /\ e.options = EnumOptionsDefault
                /\ e.options.tag_prop_name = None
                /\ e.options.content_prop_name = None
                /\ e.options.untagged = FALSE

\* Result<u64, String> has been collected, its arguments included
C21_Witness ==
    /\ Idle
    /\ root = RustTy("Result", <<U64, StringTy>>)
    /\ ident(root) \in DOMAIN types
    /\ ident(U64) \in DOMAIN types
    /\ ident(StringTy) \in DOMAIN types

\* C25: the entry of a built-in container carries the name of its key, and
\* its element, key and value idents are the generic arguments of its key in
\* the same order; every other entry carries its key as its ident or name
C25_ShapeAgreesWithKey ==
    \A k \in DOMAIN types :
        LET e == types[k]
        IN  /\ k.name \in {"Box", "Option", "Rc", "Vec", "BTreeSet", "HashSet"} =>
                    /\ e.kind \in {"Container", "List", "Set"}
                    /\ e.name = k.name
                    /\ Len(k.generic_args) = 1
                    /\ e.inner = k.generic_args[1]
            /\ k.name \in {"BTreeMap", "HashMap"} =>
                    /\ e.kind = "Map"
                    /\ e.name = k.name
                    /\ Len(k.generic_args) = 2
                    /\ e.key = k.generic_args[1]
                    /\ e.value = k.generic_args[2]
            /\ e.kind \in {"Enum", "Struct"} => e.ident = k
            /\ e.kind = "Primitive" => TypeIdentFrom(e.name) = k
            /\ e.kind = "String" => k = TypeIdentFrom("String")

\* an Rc and then a HashMap have been collected
C25_Witness ==
    /\ Idle
    /\ root.name = "HashMap"
    /\ ident(root) \in DOMAIN types
    /\ prevIdent.name = "Rc"
    /\ prevIdent \in DOMAIN types

\* C27: FPGuestError is registered as an enum with the two variants
\* SerdeError, a struct with the String fields path and message, and
\* InvalidFatPtr, a unit, in this order; its options select internal
\* tagging and nothing else: the tag property is "type", there is no content
\* property, untagged is false, and the variant names are in snake_case
C27_FPGuestErrorShape ==
    ident(FPGuestErrorTy) \in DOMAIN types =>
        LET e == types[ident(FPGuestErrorTy)]
        IN  /\ e.kind = "Enum"
            /\ Len(e.variants) = 2
            /\ e.variants[1].name = "SerdeError"
            /\ e.variants[1].ty.kind = "Struct"
            /\ Len(e.variants[1].ty.fields) = 2
            /\ e.variants[1].ty.fields[1].name = "path"
            /\ e.variants[1].ty.fields[1].ty = ident(StringTy)
            /\ e.variants[1].ty.fields[2].name = "message"
            /\ e.variants[1].ty.fields[2].ty = ident(StringTy)
            /\ e.variants[2].name = "InvalidFatPtr"
            /\ e.variants[2].ty = [kind |-> "Unit"]
            /\ e.options.tag_prop_name = Some("type")
            /\ e.options.content_prop_name = None
            /\ e.options.untagged = FALSE
            /\ e.options.variant_casing = "SnakeCase"

\* FPGuestError has been collected
C27_Witness ==
    /\ Idle
    /\ root = FPGuestErrorTy
    /\ ident(root) \in DOMAIN types

\* C26: two built-in types A and B with the same TypeIdent have the same
\* Type, and from any starting map, collecting A and then B leaves the same
\* map as collecting B and then A
C26_OrderIndependent ==
    /\ ident(oa) = ident(ob) => ty(oa) = ty(ob)
    /\ opc = {"ab", "ba"} => oab = oba

\* Vec<u64> and Vec<String>, which share the ident of Vec, have been
\* collected in both orders from the empty map
C26_Witness ==
    /\ opc = {"ab", "ba"}
    /\ oa = RustTy("Vec", <<U64>>)
    /\ ob = RustTy("Vec", <<StringTy>>)
    /\ om = <<>>
    /\ oab = oba
    /\ {ident(oa), ident(U64), ident(StringTy)} \subseteq DOMAIN oab

(***************************************************************************)
(* Properties of the export wrappers                                       *)
(***************************************************************************)
Returned(c) == xpc[c] = "returned"

\* C6: when an export call has returned, on whatever path, every guest
\* buffer that carried its argument or its result has been freed exactly
\* once
C6_BuffersFreedOnce ==
    \A c \in XCalls : Returned(c) => leaked[c] = {}

\* C7: a successful synchronous export call with a non-primitive argument
\* and result has made exactly these steps, in this order
C7_SyncCallOrder ==
    \A c \in XCalls :
        (Returned(c) /\ xkind[c] = "string" /\ xresult[c][1] = "Ok")
        => xtrace[c] = <<"serialize", "alloc", "write", "call",
                         "read", "free", "deserialize">>

\* export_string("hi") has returned Ok and has left no buffer behind
C7_Witness ==
    \E c \in XCalls :
        /\ Returned(c) /\ xkind[c] = "string"
        /\ xresult[c] = <<"Ok", <<104, 105>>>>
        /\ leaked[c] = {}

\* C10: the resolver wakes a call only for a handle that is in the pending
\* table; an invocation it refuses wakes no call, leaves every pending
\* table as it was and changes the state and the result of no call
C10_UnknownHandleRejected ==
    [][\A c \in XCalls :
        /\ Len(resolved'[c]) > Len(resolved[c])
            => resolved'[c][Len(resolved'[c])][1] \in wakers[c]
        /\ rejected'[c] > rejected[c]
            => /\ wakers' = wakers
               /\ resolved' = resolved
               /\ xpc' = xpc
               /\ xresult' = xresult]_vars

\* the resolver has refused one invocation of a call and accepted another,
\* and the call has returned Ok
C10_Witness ==
    \E c \in XCalls :
        /\ rejected[c] = 1 /\ Len(resolved[c]) = 1
        /\ Returned(c) /\ xresult[c][1] = "Ok"

\* the steps the wrapper of call c has made
InTrace(c, e) == \E i \in DOMAIN xtrace[c] : xtrace[c][i] = e

C14_OwnInstance ==
    \A c \in XCalls :
        /\ xpc[c] \notin {"idle", "serialized"} => xinst[c] # 0
        /\ \A d \in XCalls \ {c} : xinst[c] # 0 => xinst[d] # xinst[c]

\* two asynchronous calls are suspended at the same time, each on its
\* instance
C14_Witness ==
    /\ xpc[1] = "awaiting" /\ xpc[2] = "awaiting"
    /\ xinst[1] # 0 /\ xinst[2] # 0

C16_DeserializeErrorReported ==
    \A c \in XCalls :
        (Ended(c) /\ InTrace(c, "deserialize") /\ deserialize_from_slice(xreg[c]) = Invalid)
        => /\ Returned(c)
           /\ Len(xresult[c]) = 4
           /\ xresult[c][1] = "Err"
           /\ xresult[c][2] = "SerdeError"

\* C17: when the guest function has trapped, the wrapper has returned an
\* error and has read no result from guest memory, and the instance of the
\* call is the instance of no other call
C17_TrapDiscardsInstance ==
    \A c \in XCalls :
        InTrace(c, "trap")
        => /\ Returned(c)
           /\ xresult[c] = RuntimeError
           /\ ~InTrace(c, "read")
           /\ \A d \in XCalls \ {c} : xinst[d] # xinst[c]

\* a guest function has trapped and a call made after that runs on an
\* instance
C17_Witness ==
    \E c \in XCalls, d \in XCalls :
        /\ InTrace(c, "trap")
        /\ c \in xafter[d]
        /\ xinst[d] # 0

\* C18: a call with primitive arguments and a primitive result touches no
\* guest memory: the wrapper only calls the function; in a mixed signature
\* only the argument that is not primitive is serialized and written, and
\* the primitive result is returned as the guest gave it
C18_PrimitivesBypass ==
    \A c \in XCalls :
        /\ xkind[c] = "primitive_u32" =>
                /\ xmem[c] = EmptyMem
                /\ \A i \in DOMAIN xtrace[c] : xtrace[c][i] \in {"call", "trap"}
                /\ leaked[c] = {}
        /\ xkind[c] = "multiple_primitives" =>
                Cardinality({o \in DOMAIN xmem[c] : xmem[c][o].role # "none"}) <= 1
        /\ (Returned(c) /\ xkind[c] \in PrimitiveResult /\ xresult[c][1] = "Ok") =>
                /\ xresult[c] = <<"Ok", PrimitiveRet>>
                /\ xtrace[c] = IF xkind[c] = "primitive_u32" THEN <<"call">>
                                ELSE <<"serialize", "alloc", "write", "call">>

\* export_primitive_u32 has returned the u32 of the guest
C18_Witness ==
    \E c \in XCalls :
        /\ Returned(c) /\ xkind[c] = "primitive_u32"
        /\ xresult[c] = <<"Ok", PrimitiveRet>>

(***************************************************************************)
(* Properties of the asynchronous import                                   *)
(***************************************************************************)
Issued(i) == ipc[i] # "idle"

\* C8: the handles of the calls in flight differ, and the resolver is
\* invoked with the handle of a call at most once
C8_ResolvedAtMostOnce ==
    \A i \in ICalls :
        Issued(i) =>
            /\ \A j \in ICalls : (Issued(j) /\ j # i) => ihdl[j] # ihdl[i]
            /\ Cardinality({k \in DOMAIN gresolves : gresolves[k] = ihdl[i]}) <= 1

\* every call made has been resolved, the second before the first
C8_Witness ==
    /\ \A i \in ICalls : ipc[i] = "done"
    /\ gresolves[1] = ihdl[2]
    /\ gresolves[2] = ihdl[1]

\* C9: in whatever order the handles are resolved, the continuation of a
\* call has received nothing before its own handle is resolved, and exactly
\* the payload of its own result afterwards
C9_OwnPayloadOnce ==
    \A i \in ICalls :
        delivered[i] = IF ipc[i] = "done"
                       THEN <<serialize_to_vec(iresp[i])>>
                       ELSE <<>>

\* two calls with different results are in flight and the one issued last
\* has been resolved first
C9_Witness ==
    /\ ipc[2] = "done"
    /\ ipc[1] = "exported"
    /\ iresp[1] # iresp[2]
    /\ delivered[2] = <<serialize_to_vec(iresp[2])>>

\* C12: make_http_request returns its async handle without waiting for the
\* asynchronous work: the return is possible whatever the state of the
\* work, and the work of a call has not completed while the guest is still
\* inside that call
C12_ReturnsBeforeCompletion ==
    \A i \in ICalls :
        icur = i =>
            /\ ENABLED ReturnAsyncPtr(i)
            /\ ipc[i] = "spawned"

\* C13: the guest's allocator and deallocator are invoked only from the
\* execution context that drives the guest's current call, the write of
\* the result of an asynchronous import included, and so never while the
\* guest is busy with another operation
C13_AllocFromDrivingContext ==
    iallocs \subseteq {DrivingContext}

(***************************************************************************)
(* Properties of FatPtr                                                    *)
(***************************************************************************)
\* C19: a FatPtr is one 64-bit value with the offset in its high 32 bits
\* and the length in its low 32 bits; unpacking gives back the offset and
\* the length that were packed, and no other offset and length pack to the
\* same value
C19_FatPtrRoundTrip ==
    /\ fpc # "input" =>
            /\ fptr \subseteq U64Bits
            /\ Shr(fptr, 32) = foff
            /\ BitAnd(fptr, U32Bits) = flen
            /\ \A o \in U32Samples, l \in U32Samples :
                    FatPtr(o, l) = fptr => (o = foff /\ l = flen)
    /\ fpc = "unpacked" => fout = <<foff, flen>>

\* offset 2^32 - 1 and length 2^31 have gone through a FatPtr
C19_Witness ==
    /\ fpc = "unpacked"
    /\ foff = U32Bits
    /\ flen = {31}
    /\ fptr = (32..63) \cup {31}

(***************************************************************************)
(* Properties of the import wrappers                                       *)
(***************************************************************************)
\* the number of times the guest's resolver was invoked with the handle h
ResolveCount(h) == Cardinality({n \in DOMAIN gresolves : gresolves[n] = h})

\* C22: when the future of an asynchronous import has completed, the result
\* is written into guest memory before the guest's resolver is called; the
\* resolver is called exactly once, with the handle the import call returned
\* and the fat pointer of the result written
C22_WriteThenResolve ==
    /\ [](\A i \in ICalls :
            /\ ipc[i] \in {"spawned", "ready"} => ResolveCount(ihdl[i]) = 0
            /\ ipc[i] = "exported" =>
                    /\ ResolveCount(ihdl[i]) = 0
                    /\ imem[fat_ptr_offset(irp[i])].role = "result"
                    /\ ReadBytes(imem, irp[i]) = serialize_to_vec(iresp[i])
            /\ ipc[i] = "done" => ResolveCount(ihdl[i]) = 1)
    /\ [][\A i \in ICalls :
            (ipc[i] # "done" /\ ipc'[i] = "done") =>
                /\ ipc[i] = "exported"
                /\ gresolves' = Append(gresolves, ihdl[i])
                /\ delivered'[i] = Append(delivered[i], ReadBytes(imem, irp[i]))]_vars

\* the first call has completed with "hi" and has been resolved, while the
\* second is still waiting for its future
C22_Witness ==
    /\ ipc[1] = "done"
    /\ ipc[2] = "spawned"
    /\ iresp[1] = <<104, 105>>
    /\ gresolves = <<ihdl[1]>>
    /\ delivered[1] = <<serialize_to_vec(<<104, 105>>)>>

\* the accesses of one kind the wrapper has made to guest memory
Accesses(kind) == {n \in DOMAIN saccess : saccess[n][1] = kind}

\* C23: a synchronous import wrapper reads its fat-pointer argument out of
\* guest memory before it invokes the host function, invokes the host
\* function exactly once, with the values the guest passed, and writes a
\* result that is not primitive into guest memory only after the host
\* function has returned, returning the fat pointer of what it wrote;
\* primitive arguments and results pass through unchanged, and a wrapper
\* with primitives only makes no access to guest memory
C23_SyncImportOrder ==
    /\ [](spc # "idle" =>
            /\ Len(shost) = (IF spc \in {"called", "returned"} THEN 1 ELSE 0)
            /\ shost # <<>> => shost[1] = sin
            /\ skind \in FatPtrArg =>
                    /\ spc = "entered" => saccess = <<>>
                    /\ spc # "entered" => saccess[1] = <<"read", sarg[Len(sarg)]>>
                    /\ Cardinality(Accesses("read")) <= 1
            /\ skind = "multiple_primitives" /\ spc # "entered" => sval[1] = sarg[1]
            /\ skind \in FatPtrResult =>
                    /\ spc # "returned" => Accesses("write") = {}
                    /\ spc = "returned" =>
                            /\ saccess = <<saccess[1], <<"write", sret>> >>
                            /\ ReadBytes(smem, sret) = serialize_to_vec(sresult)
            /\ skind \notin FatPtrResult =>
                    /\ Accesses("write") = {}
                    /\ spc = "returned" => sret = sresult
            /\ skind \notin FatPtrArg \cup FatPtrResult => saccess = <<>>)
    /\ [][(skind' \notin FatPtrArg \cup FatPtrResult) => smem' = smem]_vars
    /\ [][(skind' \notin FatPtrResult /\ spc # "entered" /\ spc' # "entered")
            => smem' = smem]_vars

\* _import_string has returned the fat pointer of "hi" for the argument ""
C23_StringWitness ==
    /\ spc = "returned"
    /\ skind = "string"
    /\ sin = << <<>> >>
    /\ sresult = <<104, 105>>
    /\ ReadBytes(smem, sret) = serialize_to_vec(<<104, 105>>)

(***************************************************************************)
(* Properties of the import table                                          *)
(***************************************************************************)
\* the names of the entries of an import object
EntryNames(table) == {table[n][1] : n \in DOMAIN table}

\* C24: the import object an instance is created with has one entry named
\* __fp_gen_<name> for every import function the guest declares, the entry
\* __fp_host_resolve_async_value, and no other entry
C24_ImportTable ==
    \A c \in XCalls :
        xinst[c] # 0 =>
            /\ EntryNames(imports[c]) =
                    {ImportEntryName(f) : f \in GuestImports}
                        \cup {"__fp_host_resolve_async_value"}
            /\ Len(imports[c]) = Cardinality(EntryNames(imports[c]))
            /\ Len(imports[c]) = Cardinality(GuestImports) + 1

\* an instance has been created for a call of export_string
C24_Witness ==
    /\ xkind[1] = "string"
    /\ xinst[1] # 0
    /\ xpc[1] = "instantiated"
    /\ imports[1] # <<>>

====
